---- MODULE Spec2Model ----
(***************************************************************************)
(* Model of publish.ts (hugo-aide): the CLI dispatcher, the execution      *)
(* context and its lifecycle operations, and the build-hook executor.      *)
(*                                                                         *)
(* One process runs CLI().  Its control position is pc; every action is    *)
(* the code between two suspension points (await).  Hook default functions *)
(* that return a promise are tasks in `pending` which settle on their own. *)
(***************************************************************************)
EXTENDS Integers, Sequences, FiniteSets, TLC

\* ---------------------------------------------------------------- bounds
MaxCustom == 2      \* longest customHandlers list
MaxHooks  == 2      \* most entries one glob expansion yields
MaxKeys   == 2      \* most command keys true in one parsed option set
MaxRuns   == 2      \* CLI invocations (processes) over the same filesystem

\* ------------------------------------------------------------- constants
PREPARE  == "prepare"
FINALIZE == "finalize"
BuildLifecycleStep == {PREPARE, FINALIZE}

\* (mutant) the array with clean and update exchanged
commonHandlers_reordered ==
    <<"prepare-build", "build", "update", "clean", "version">>

\* the built-in handlers, named by the command key each one inspects
commonHandlers == <<"prepare-build", "build", "clean", "update", "version">>
CommandKeys == {commonHandlers[i] : i \in 1..Len(commonHandlers)}

\* (mutant) the array literal with its first two paths exchanged
cleanTargets_reordered == <<"public", "go.sum", "resources">>

\* the artifact paths clean() removes, in the order of the array literal
cleanTargets == <<"go.sum", "public", "resources">>
Artifacts == {cleanTargets[i] : i \in 1..Len(cleanTargets)}

\* paths are sequences of segments
Cwd       == <<"site">>                 \* Deno.cwd()
OtherHome == <<"elsewhere">>            \* --project: a home that is not the cwd
SubHome   == <<"site", "docs">>         \* chsOptions.projectHome: below the cwd
NoPath    == <<>>                       \* option absent (falsy)
DefaultGlob == "**/*/pubctl-hook-build.ts"
HookDirs  == <<"h1", "h2", "h3", "h4">> \* directory of the i-th glob entry
HookFile  == "pubctl-hook-build.ts"

Min(a, b) == IF a < b THEN a ELSE b

\* ------------------------------------------------------------ path.relative
RECURSIVE CommonPrefixLen(_, _, _)
CommonPrefixLen(from, to, k) ==
    IF k < Min(Len(from), Len(to)) /\ from[k + 1] = to[k + 1]
    THEN CommonPrefixLen(from, to, k + 1)
    ELSE k

\* path.relative(from, to): ".." for every segment of `from` beyond the
\* common prefix, then the segments of `to` beyond it
relative(from, to) ==
    LET k == CommonPrefixLen(from, to, 0)
    IN  [i \in 1..(Len(from) - k) |-> ".."] \o SubSeq(to, k + 1, Len(to))

\* ---------------------------------------------------------------- state
VARIABLES
    run,          \* number of the current CLI invocation (process)
    pc,           \* control position of CLI()
    crashed,      \* the runtime ended the process on an unhandled rejection
    artifacts,    \* filesystem: which of cleanTargets exist
    hookFs,       \* filesystem: isFile of each entry the hook glob matches
    chsOptions,   \* the CommandHandlerSpecOptions CLI() is called with
    cliOptions,   \* parsed options
    ctx,          \* the execution context
    handled,      \* CLI's local `handled`
    ci,           \* index of the next custom handler
    bi,           \* index of the next built-in handler
    invokedCustom,   \* custom handlers invoked in this dispatch
    claimedCustom,   \* the custom handler that returned true (0: none)
    invokedBuiltin,  \* built-in handlers invoked in this dispatch
    calls,        \* context methods entered, in call order
    op,           \* command whose built-in handler is running its operation
    step,         \* step of the running handleProjectBuildHooks
    hi,           \* index of the next glob entry of the running batch
    result,       \* `result` of the running handleProjectBuildHooks
    modules,      \* module cache: what import() of entry i gave
    imports,      \* import() attempts, <<entry, step>>
    invocations,  \* calls of a hook default function, in call order
    pending,      \* invoked hooks whose returned promise has not settled
    effects,      \* invocations whose work has completed
    caught,       \* loads/invocations whose exception the hook boundary caught
    uncaught,     \* invocations whose rejection nobody handled
    shellCalls,   \* runShellCommand calls, in call order
    deleted,      \* Deno.removeSync calls, in call order
    console,      \* console output, in order
    rets,         \* what prepareBuild / finalizeBuild returned
    cliResult     \* how CLI() ended: "none", "returned", "raised"

fsVars       == <<artifacts, hookFs, chsOptions>>
dispatchVars == <<cliOptions, ctx, handled, ci, bi, invokedCustom,
                  claimedCustom, invokedBuiltin>>
batchVars    == <<step, hi, result>>
hookVars     == <<modules, imports, invocations, effects, caught>>
asyncVars    == <<pending, uncaught, crashed>>
vars == <<run, pc, fsVars, dispatchVars, calls, op, batchVars, hookVars,
          asyncVars, shellCalls, deleted, console, rets, cliResult>>

\* ------------------------------------------------------------- data shapes
NoOptions == [cmds |-> {}, dryRun |-> FALSE, verbose |-> FALSE,
              project |-> NoPath, buildHooks |-> ""]
NoCtx == [built |-> FALSE, projectHome |-> NoPath,
          buildLifecyleHandlerGlob |-> "", isVerbose |-> FALSE,
          isDryRun |-> FALSE]
NoRet  == [called |-> FALSE, defined |-> FALSE, list |-> <<>>]
NoRets == [m \in {"prepareBuild", "finalizeBuild"} |-> NoRet]
Returned(list) == [called |-> TRUE, defined |-> TRUE, list |-> list]
ReturnedVoid   == [called |-> TRUE, defined |-> FALSE, list |-> <<>>]

\* parsed option sets the grammar parser can hand back (a custom grammar may
\* set several command keys, or none)
OptionSets ==
    {[cmds |-> c, dryRun |-> d, verbose |-> v, project |-> p, buildHooks |-> ""] :
        c \in {s \in SUBSET CommandKeys : Cardinality(s) <= MaxKeys},
        d \in BOOLEAN, v \in BOOLEAN, p \in {NoPath, OtherHome}}

\* filesystems: the entries the hook glob matches, each a file or a directory
GlobListings == UNION {[1..n -> BOOLEAN] : n \in 0..MaxHooks}

\* what CLI() starts from: the caller's options (customHandlers: -1 when
\* absent, else the length of the list) and the filesystem.  Custom handlers,
\* the project home override, hook modules and build artifacts are varied
\* one dimension at a time
Fixtures ==
    {f \in [customHandlers : -1..MaxCustom, projectHome : {NoPath, SubHome},
            hooks : GlobListings, artifacts : SUBSET Artifacts] :
        Cardinality({d \in {"c", "p", "h", "a"} :
            \/ d = "c" /\ f.customHandlers # -1
            \/ d = "p" /\ f.projectHome # NoPath
            \/ d = "h" /\ f.hooks # <<>>
            \/ d = "a" /\ f.artifacts # {}}) <= 1}

\* what a hook module turns out to be when import()ed: it cannot be loaded,
\* it has no default function, or its default function returns normally,
\* throws, or returns a promise that settles later
ModuleKinds == {"loadfail", "nodefault", "sync", "throws", "async"}

Log(kind, st, name, what) == [kind |-> kind, step |-> st, name |-> name, what |-> what]
Task(i, st) == <<i, st>>

\* fs.expandGlobSync(glob): no root is passed, so the walk starts at
\* Deno.cwd(); entry i is HookDirs[i]/pubctl-hook-build.ts below it
expandGlobSync(fs) ==
    [i \in 1..Len(fs) |-> [path |-> Cwd \o <<HookDirs[i], HookFile>>, isFile |-> fs[i]]]

\* ------------------------------------------- PublishCommandHandlerContext
\* (mutant) isVerbose taken from --verbose alone
newContext_verboseAsGiven(chs, cli) ==
    [built |-> TRUE,
     projectHome |-> IF cli.project # NoPath THEN cli.project
                     ELSE IF chs.projectHome # NoPath THEN chs.projectHome
                     ELSE Cwd,
     buildLifecyleHandlerGlob |->
         IF cli.buildHooks # "" THEN cli.buildHooks ELSE DefaultGlob,
     isDryRun |-> cli.dryRun,
     isVerbose |-> cli.verbose]

\* constructor: the fields are derived once from the two option records
newContext(chs, cli) ==
    LET isDryRun == IF cli.dryRun THEN TRUE ELSE FALSE
    IN  [built |-> TRUE,
         projectHome |-> IF cli.project # NoPath THEN cli.project
                         ELSE IF chs.projectHome # NoPath THEN chs.projectHome
                         ELSE Cwd,
         buildLifecyleHandlerGlob |->
             IF cli.buildHooks # "" THEN cli.buildHooks ELSE DefaultGlob,
         isDryRun |-> isDryRun,
         isVerbose |-> isDryRun \/ (IF cli.verbose THEN TRUE ELSE FALSE)]

\* reportShellCmd: what it prints
reportShellCmd(c, cmd) ==
    IF c.isVerbose /\ ~c.isDryRun THEN <<Log("shell", "", <<>>, cmd)>> ELSE <<>>

\* the runShellCommand call each operation makes: command line (program and
\* fixed arguments, then the hook names update() appends) and options
shellCall(c, cmd, names) ==
    [cmd |-> cmd, names |-> names, verbose |-> c.isVerbose, dryRun |-> c.isDryRun]

\* the hook module name of a glob entry
prepModuleName(c, we) == relative(c.projectHome, we.path)

\* (mutant) the loop without the `if (we.isFile)` test
RECURSIVE relNames_withDirectories(_, _, _)
relNames_withDirectories(c, entries, i) ==
    IF i > Len(entries) THEN <<>>
    ELSE <<prepModuleName(c, entries[i])>>
         \o relNames_withDirectories(c, entries, i + 1)

\* getPrepareBuildSubmoduleRelNames: names of the entries that are files
RECURSIVE relNames(_, _, _)
relNames(c, entries, i) ==
    IF i > Len(entries) THEN <<>>
    ELSE (IF entries[i].isFile THEN <<prepModuleName(c, entries[i])>> ELSE <<>>)
         \o relNames(c, entries, i + 1)
getPrepareBuildSubmoduleRelNames(c, fs) == relNames(c, expandGlobSync(fs), 1)

\* Deno.removeSync(f, {recursive: true}) on s = [artifacts, deleted, console,
\* threw]: removes an existing path, throws NotFound for a missing one
removeSync(s, f) ==
    IF f \in s.artifacts
    THEN [s EXCEPT !.artifacts = @ \ {f}, !.deleted = Append(@, f)]
    ELSE [s EXCEPT !.threw = TRUE]

\* (mutant) the callback without the fs.existsSync guard
cleanTarget_noExistsCheck(c, s, f) ==
    IF c.isDryRun
    THEN [s EXCEPT !.console = Append(@, Log("clean", "", <<>>, f))]
    ELSE LET r == removeSync(s, f)
         IN  IF ~r.threw /\ c.isVerbose
             THEN [r EXCEPT !.console = Append(@, Log("deleted", "", <<>>, f))]
             ELSE r

\* clean(): the body of the forEach callback for target f
cleanTarget(c, s, f) ==
    IF f \in s.artifacts
    THEN IF c.isDryRun
         THEN [s EXCEPT !.console = Append(@, Log("clean", "", <<>>, f))]
         ELSE LET r == removeSync(s, f)
              IN  IF ~r.threw /\ c.isVerbose
                  THEN [r EXCEPT !.console = Append(@, Log("deleted", "", <<>>, f))]
                  ELSE r
    ELSE s

\* clean(): the forEach over the three targets, in array order; a throw in
\* the callback ends the iteration
RECURSIVE cleanEach(_, _, _)
cleanEach(c, s, i) ==
    IF i > Len(cleanTargets) \/ s.threw THEN s
    ELSE cleanEach(c, cleanTarget(c, s, cleanTargets[i]), i + 1)

\* (mutant) the default export is called without the typeof test
callsDefault_noTypeofTest(c, kind) == ~c.isDryRun /\ kind # "loadfail"

\* (mutant) the call sits inside the `if (this.isVerbose)` block
callsDefault_onlyVerbose(c, kind) ==
    ~c.isDryRun /\ c.isVerbose /\ kind \notin {"loadfail", "nodefault"}

\* (mutant) the default function is called in dry-run as well
callsDefault_ignoresDryRun(c, kind) == kind \notin {"loadfail", "nodefault"}

\* handleProjectBuildHooks: is the hook's default function called at all
callsDefault(c, kind) == ~c.isDryRun /\ kind \notin {"loadfail", "nodefault"}

\* (mutant) the push sits inside the try block, after the call
pushResult_insideTry(res, name, kind) ==
    IF kind \in {"loadfail", "throws"} THEN res ELSE Append(res, name)

\* handleProjectBuildHooks: the name is pushed whatever happened to the hook
pushResult(res, name, kind) == Append(res, name)

\* handleProjectBuildHooks: console output for one file entry
hookConsole(c, st, name, kind) ==
    IF kind = "loadfail" THEN <<Log("hook", st, name, "error")>>
    ELSE (IF c.isDryRun \/ c.isVerbose
          THEN <<Log("hook", st, name, "imported")>> ELSE <<>>)
         \o (IF c.isDryRun THEN <<>>
             ELSE IF kind = "nodefault"
                  THEN <<Log("hook", st, name, "does not have a default function")>>
             ELSE IF kind = "throws" THEN <<Log("hook", st, name, "error")>>
             ELSE IF c.isVerbose THEN <<Log("hook", st, name, "executed")>>
             ELSE <<>>)

\* ------------------------------------------------------------------ Init
Init ==
    /\ \E f \in Fixtures :
          /\ artifacts = f.artifacts
          /\ hookFs = f.hooks
          /\ chsOptions = [customHandlers |-> f.customHandlers,
                           projectHome |-> f.projectHome]
    /\ run = 1
    /\ pc = "parse"
    /\ crashed = FALSE
    /\ cliOptions = NoOptions
    /\ ctx = NoCtx
    /\ handled = FALSE
    /\ ci = 1
    /\ bi = 1
    /\ invokedCustom = {}
    /\ claimedCustom = 0
    /\ invokedBuiltin = {}
    /\ calls = <<>>
    /\ op = "none"
    /\ step = "none"
    /\ hi = 1
    /\ result = <<>>
    /\ modules = [i \in 1..Len(hookFs) |-> "unloaded"]
    /\ imports = {}
    /\ invocations = <<>>
    /\ pending = {}
    /\ effects = {}
    /\ caught = {}
    /\ uncaught = {}
    /\ shellCalls = <<>>
    /\ deleted = <<>>
    /\ console = <<>>
    /\ rets = NoRets
    /\ cliResult = "none"

Alive == ~crashed

\* ------------------------------------------------------------------- CLI
\* (mutant) no catch clause: the exception leaves CLI
CLI_catch_missing(msg) ==
    /\ console' = console
    /\ pc' = "done"
    /\ cliResult' = "raised"

\* the catch clause of CLI: print e.message; CLI then returns
CLI_catch(msg) ==
    /\ console' = Append(console, Log("error", "", <<>>, msg))
    /\ pc' = "done"
    /\ cliResult' = "returned"

\* after `handled = await handler(context)`: break, or go on to the next
\* handler of the list of length n
afterCustom(claimed, n) ==
    IF claimed \/ ci >= n THEN pc' = "builtin" /\ ci' = ci
    ELSE pc' = "custom" /\ ci' = ci + 1

\* docopt.default(docoptSpec(...)): the parsed options, or a throw
CLI_parse ==
    /\ Alive /\ pc = "parse"
    /\ \/ /\ \E o \in OptionSets : cliOptions' = o
          /\ pc' = "construct"
          /\ UNCHANGED <<console, cliResult>>
       \/ /\ CLI_catch("parse")
          /\ UNCHANGED cliOptions
    /\ UNCHANGED <<run, fsVars, ctx, handled, ci, bi, invokedCustom,
                   claimedCustom, invokedBuiltin, calls, op, batchVars,
                   hookVars, asyncVars, shellCalls, deleted, rets>>

\* prepareContext(...) or new PublishCommandHandlerContext(...); either may
\* throw.  `if (customHandlers)` then sends control to the first loop that
\* has a handler to call
CLI_construct ==
    /\ Alive /\ pc = "construct"
    /\ \/ /\ ctx' = newContext(chsOptions, cliOptions)
          /\ pc' = IF chsOptions.customHandlers >= 1 THEN "custom" ELSE "builtin"
          /\ UNCHANGED <<console, cliResult>>
       \/ /\ CLI_catch("construct")
          /\ UNCHANGED ctx
    /\ UNCHANGED <<run, fsVars, cliOptions, handled, ci, bi, invokedCustom,
                   claimedCustom, invokedBuiltin, calls, op, batchVars,
                   hookVars, asyncVars, shellCalls, deleted, rets>>

\* one iteration of the customHandlers loop: the handler declines (returns
\* nothing), claims (returns true) or throws
CLI_customHandler ==
    /\ Alive /\ pc = "custom"
    /\ invokedCustom' = invokedCustom \cup {ci}
    /\ \/ /\ handled' = FALSE
          /\ afterCustom(FALSE, chsOptions.customHandlers)
          /\ UNCHANGED <<claimedCustom, console, cliResult>>
       \/ /\ handled' = TRUE
          /\ claimedCustom' = ci
          /\ afterCustom(TRUE, chsOptions.customHandlers)
          /\ UNCHANGED <<console, cliResult>>
       \/ /\ CLI_catch("custom handler")
          /\ UNCHANGED <<handled, claimedCustom, ci>>
    /\ UNCHANGED <<run, fsVars, cliOptions, ctx, bi, invokedBuiltin, calls, op,
                   batchVars, hookVars, asyncVars, shellCalls, deleted, rets>>

\* ------------------------------------------------------ built-in handlers
\* `if (auto)`, `if (build)`, ...: the handler acts when its key is truthy
keySet(cli, key) == key \in cli.cmds

\* the handler returned nothing: `handled` is overwritten, the loop goes on
\* to the next built-in handler or ends
declines ==
    /\ handled' = FALSE
    /\ IF bi >= Len(commonHandlers)
       THEN pc' = "finish" /\ bi' = bi
       ELSE pc' = "builtin" /\ bi' = bi + 1

\* the handler returned true: `if (handled) break`
claims == handled' = TRUE /\ pc' = "finish"

\* entry of handleProjectBuildHooks(st), up to its first await
enterHooks(st) ==
    /\ step' = st
    /\ hi' = 1
    /\ result' = <<>>
    /\ pc' = "hooks"

\* reportShellCmd(cmd) then the call of shell.runShellCommand
enterShell(cmd, names) ==
    /\ console' = console \o reportShellCmd(ctx, cmd)
    /\ shellCalls' = Append(shellCalls, shellCall(ctx, cmd, names))
    /\ pc' = "shell"

atHandler(key) ==
    /\ Alive /\ pc = "builtin" /\ commonHandlers[bi] = key
    /\ invokedBuiltin' = invokedBuiltin \cup {key}

prepareBuildHandler ==
    /\ atHandler("prepare-build")
    /\ IF keySet(cliOptions, "prepare-build")
       THEN /\ op' = "prepare-build"
            /\ calls' = calls \o <<"prepareBuild">>
            /\ enterHooks(PREPARE)
            /\ UNCHANGED <<handled, bi>>
       ELSE /\ declines
            /\ UNCHANGED <<op, calls, batchVars>>
    /\ UNCHANGED <<run, fsVars, cliOptions, ctx, ci, invokedCustom,
                   claimedCustom, hookVars, asyncVars, shellCalls, deleted,
                   console, rets, cliResult>>

buildHandler ==
    /\ atHandler("build")
    /\ IF keySet(cliOptions, "build")
       THEN /\ op' = "build"
            /\ calls' = calls \o <<"build", "prepareBuild">>
            /\ enterHooks(PREPARE)
            /\ UNCHANGED <<handled, bi>>
       ELSE /\ declines
            /\ UNCHANGED <<op, calls, batchVars>>
    /\ UNCHANGED <<run, fsVars, cliOptions, ctx, ci, invokedCustom,
                   claimedCustom, hookVars, asyncVars, shellCalls, deleted,
                   console, rets, cliResult>>

cleanHandler ==
    /\ atHandler("clean")
    /\ IF keySet(cliOptions, "clean")
       THEN /\ op' = "clean"
            /\ calls' = calls \o <<"clean">>
            /\ enterShell("hugox mod clean --all", <<>>)
            /\ UNCHANGED <<handled, bi>>
       ELSE /\ declines
            /\ UNCHANGED <<op, calls, shellCalls, console>>
    /\ UNCHANGED <<run, fsVars, cliOptions, ctx, ci, invokedCustom,
                   claimedCustom, batchVars, hookVars, asyncVars, deleted,
                   rets, cliResult>>

updateHandler ==
    /\ atHandler("update")
    /\ IF keySet(cliOptions, "update")
       THEN /\ op' = "update"
            /\ calls' = calls \o <<"update", "getPrepareBuildSubmoduleRelNames">>
            /\ enterShell("udd pubctl.ts",
                          getPrepareBuildSubmoduleRelNames(ctx, hookFs))
            /\ UNCHANGED <<handled, bi>>
       ELSE /\ declines
            /\ UNCHANGED <<op, calls, shellCalls, console>>
    /\ UNCHANGED <<run, fsVars, cliOptions, ctx, ci, invokedCustom,
                   claimedCustom, batchVars, hookVars, asyncVars, deleted,
                   rets, cliResult>>

\* prints the tool version, then awaits determineVersion
versionHandler ==
    /\ atHandler("version")
    /\ IF keySet(cliOptions, "version")
       THEN /\ op' = "version"
            /\ console' = Append(console, Log("version", "", <<>>, "pubctl"))
            /\ pc' = "version"
            /\ UNCHANGED <<handled, bi>>
       ELSE /\ declines
            /\ UNCHANGED <<op, console>>
    /\ UNCHANGED <<run, fsVars, cliOptions, ctx, ci, invokedCustom,
                   claimedCustom, calls, batchVars, hookVars, asyncVars,
                   shellCalls, deleted, rets, cliResult>>

\* (mutant) the library version line is left out
versionHandler_resume_toolOnly ==
    /\ Alive /\ pc = "version"
    /\ \/ /\ claims
          /\ UNCHANGED <<console, cliResult>>
       \/ /\ CLI_catch("determineVersion")
          /\ UNCHANGED handled
    /\ UNCHANGED <<run, fsVars, cliOptions, ctx, ci, bi, invokedCustom,
                   claimedCustom, invokedBuiltin, calls, op, batchVars,
                   hookVars, asyncVars, shellCalls, deleted, rets>>

\* determineVersion settles: the library version is printed and the handler
\* returns true, or the rejection reaches CLI's catch
versionHandler_resume ==
    /\ Alive /\ pc = "version"
    /\ \/ /\ console' = Append(console, Log("version", "", <<>>, "hugo-aide"))
          /\ claims
          /\ UNCHANGED cliResult
       \/ /\ CLI_catch("determineVersion")
          /\ UNCHANGED handled
    /\ UNCHANGED <<run, fsVars, cliOptions, ctx, ci, bi, invokedCustom,
                   claimedCustom, invokedBuiltin, calls, op, batchVars,
                   hookVars, asyncVars, shellCalls, deleted, rets>>

\* ------------------------------------------------- handleProjectBuildHooks
\* (mutant) prepareBuild without its `return`
prepareBuild_noReturn(res) == ReturnedVoid

\* prepareBuild returns the list the executor returned
prepareBuild(res) == Returned(res)

\* finalizeBuild awaits the executor and returns nothing
finalizeBuild(res) == ReturnedVoid

\* one iteration of the loop over the glob entries: a directory is skipped;
\* for a file the module is imported (the await), then reported, its default
\* function called without awaiting what it returns, and its name pushed
handleProjectBuildHooks ==
    /\ Alive /\ pc = "hooks" /\ hi <= Len(hookFs)
    /\ LET we == expandGlobSync(hookFs)[hi]
           name == prepModuleName(ctx, we)
           t == Task(hi, step)
       IN  IF ~we.isFile
           THEN UNCHANGED <<result, hookVars, pending, console>>
           ELSE \E kind \in (IF modules[hi] = "unloaded" THEN ModuleKinds
                             ELSE {modules[hi]}) :
                  LET called == callsDefault(ctx, kind)
                  IN  /\ modules' = [modules EXCEPT ![hi] = kind]
                      /\ imports' = imports \cup {t}
                      /\ console' = console \o hookConsole(ctx, step, name, kind)
                      /\ invocations' = IF called THEN Append(invocations, t)
                                        ELSE invocations
                      /\ effects' = IF called /\ kind = "sync"
                                    THEN effects \cup {t} ELSE effects
                      /\ caught' = IF kind = "loadfail" \/ (called /\ kind = "throws")
                                   THEN caught \cup {t} ELSE caught
                      /\ pending' = IF called /\ kind = "async"
                                    THEN pending \cup {t} ELSE pending
                      /\ result' = pushResult(result, name, kind)
    /\ hi' = hi + 1
    /\ UNCHANGED <<run, pc, fsVars, dispatchVars, calls, op, step, uncaught,
                   crashed, shellCalls, deleted, rets, cliResult>>

\* the loop is over: `return result`, and the caller goes on to its next
\* await (build: the generation command) or returns to its handler
handleProjectBuildHooks_return ==
    /\ Alive /\ pc = "hooks" /\ hi > Len(hookFs)
    /\ \/ /\ op = "prepare-build"
          /\ rets' = [rets EXCEPT !["prepareBuild"] = prepareBuild(result)]
          /\ claims
          /\ UNCHANGED <<shellCalls, console>>
       \/ /\ op = "build" /\ step = PREPARE
          /\ rets' = [rets EXCEPT !["prepareBuild"] = prepareBuild(result)]
          /\ enterShell("hugox", <<>>)
          /\ UNCHANGED handled
       \/ /\ op = "build" /\ step = FINALIZE
          /\ rets' = [rets EXCEPT !["finalizeBuild"] = finalizeBuild(result)]
          /\ claims
          /\ UNCHANGED <<shellCalls, console>>
    /\ UNCHANGED <<run, fsVars, cliOptions, ctx, ci, bi, invokedCustom,
                   claimedCustom, invokedBuiltin, calls, op, batchVars,
                   hookVars, asyncVars, deleted, cliResult>>

\* a promise returned by a hook settles; nothing awaits it or handles its
\* rejection, and the runtime ends the process on an unhandled rejection
hookPromiseSettles ==
    /\ Alive
    /\ \E t \in pending :
          /\ pending' = pending \ {t}
          /\ \/ /\ effects' = effects \cup {t}
                /\ UNCHANGED <<uncaught, crashed>>
             \/ /\ uncaught' = uncaught \cup {t}
                /\ crashed' = TRUE
                /\ UNCHANGED effects
    /\ UNCHANGED <<run, pc, fsVars, dispatchVars, calls, op, batchVars,
                   modules, imports, invocations, caught, shellCalls, deleted,
                   console, rets, cliResult>>

\* ------------------------------------------------- after runShellCommand
\* (mutant) build() swallows a failure of the generation command and goes on
\* to finalizeBuild
runShellCommand_resume_buildSwallows ==
    /\ Alive /\ pc = "shell"
    /\ \/ /\ op = "build"
          /\ \/ console' = console
             \/ ~ctx.isDryRun
                /\ console' = Append(console, Log("error", "", <<>>, "runShellCommand"))
          /\ calls' = calls \o <<"finalizeBuild">>
          /\ enterHooks(FINALIZE)
          /\ UNCHANGED <<handled, artifacts, deleted, cliResult>>
       \/ /\ op = "clean"
          /\ LET s == cleanEach(ctx, [artifacts |-> artifacts,
                                      deleted |-> deleted,
                                      console |-> console,
                                      threw |-> FALSE], 1)
             IN  /\ artifacts' = s.artifacts
                 /\ deleted' = s.deleted
                 /\ IF s.threw
                    THEN /\ console' = Append(s.console,
                                              Log("error", "", <<>>, "removeSync"))
                         /\ pc' = "done"
                         /\ cliResult' = "returned"
                         /\ UNCHANGED handled
                    ELSE /\ console' = s.console
                         /\ claims
                         /\ UNCHANGED cliResult
          /\ UNCHANGED <<calls, batchVars>>
       \/ /\ op = "update"
          /\ claims
          /\ UNCHANGED <<calls, batchVars, artifacts, deleted, console, cliResult>>
       \/ /\ ~ctx.isDryRun /\ op # "build"
          /\ CLI_catch("runShellCommand")
          /\ UNCHANGED <<handled, calls, batchVars, artifacts, deleted>>
    /\ UNCHANGED <<run, hookFs, chsOptions, cliOptions, ctx, ci, bi,
                   invokedCustom, claimedCustom, invokedBuiltin, op, hookVars,
                   asyncVars, shellCalls, rets>>

\* the awaited shell call returns and the operation continues, or it throws
\* (a dry-run call starts nothing and so fails nothing)
runShellCommand_resume ==
    /\ Alive /\ pc = "shell"
    /\ \/ /\ op = "build"
          /\ calls' = calls \o <<"finalizeBuild">>
          /\ enterHooks(FINALIZE)
          /\ UNCHANGED <<handled, artifacts, deleted, console, cliResult>>
       \/ /\ op = "clean"
          /\ LET s == cleanEach(ctx, [artifacts |-> artifacts,
                                      deleted |-> deleted,
                                      console |-> console,
                                      threw |-> FALSE], 1)
             IN  /\ artifacts' = s.artifacts
                 /\ deleted' = s.deleted
                 /\ IF s.threw
                    THEN /\ console' = Append(s.console,
                                              Log("error", "", <<>>, "removeSync"))
                         /\ pc' = "done"
                         /\ cliResult' = "returned"
                         /\ UNCHANGED handled
                    ELSE /\ console' = s.console
                         /\ claims
                         /\ UNCHANGED cliResult
          /\ UNCHANGED <<calls, batchVars>>
       \/ /\ op = "update"
          /\ claims
          /\ UNCHANGED <<calls, batchVars, artifacts, deleted, console, cliResult>>
       \/ /\ ~ctx.isDryRun
          /\ CLI_catch("runShellCommand")
          /\ UNCHANGED <<handled, calls, batchVars, artifacts, deleted>>
    /\ UNCHANGED <<run, hookFs, chsOptions, cliOptions, ctx, ci, bi,
                   invokedCustom, claimedCustom, invokedBuiltin, op, hookVars,
                   asyncVars, shellCalls, rets>>

\* (mutant) the test on `handled` inverted
unhandledDiagnostic_inverted(h) ==
    IF h
    THEN <<Log("unable", "", <<>>, "Unable to handle validly parsed docoptSpec:"),
           Log("dir", "", <<>>, "cliOptions")>>
    ELSE <<>>

\* `if (!handled)`: console.error of the diagnostic, console.dir(cliOptions)
unhandledDiagnostic(h) ==
    IF ~h
    THEN <<Log("unable", "", <<>>, "Unable to handle validly parsed docoptSpec:"),
           Log("dir", "", <<>>, "cliOptions")>>
    ELSE <<>>

\* the handler loops are over; CLI returns
CLI_finish ==
    /\ Alive /\ pc = "finish"
    /\ console' = console \o unhandledDiagnostic(handled)
    /\ pc' = "done"
    /\ cliResult' = "returned"
    /\ UNCHANGED <<run, fsVars, dispatchVars, calls, op, batchVars, hookVars,
                   asyncVars, shellCalls, deleted, rets>>

\* the process has ended and pubctl is run again on the filesystem it left.
\* Only a completed clean() changes the filesystem; after any other run the
\* next process starts from what a first run starts from, so the runs that
\* are followed up are the completed, not dry-run, cleans
runAgain ==
    /\ run < MaxRuns
    /\ pc = "done" /\ op = "clean" /\ handled /\ ~ctx.isDryRun
    /\ run' = run + 1
    /\ pc' = "parse"
    /\ crashed' = FALSE
    /\ cliOptions' = NoOptions
    /\ ctx' = NoCtx
    /\ handled' = FALSE
    /\ ci' = 1
    /\ bi' = 1
    /\ invokedCustom' = {}
    /\ claimedCustom' = 0
    /\ invokedBuiltin' = {}
    /\ calls' = <<>>
    /\ op' = "none"
    /\ step' = "none"
    /\ hi' = 1
    /\ result' = <<>>
    /\ modules' = [i \in 1..Len(hookFs) |-> "unloaded"]
    /\ imports' = {}
    /\ invocations' = <<>>
    /\ pending' = {}
    /\ effects' = {}
    /\ caught' = {}
    /\ uncaught' = {}
    /\ shellCalls' = <<>>
    /\ deleted' = <<>>
    /\ console' = <<>>
    /\ rets' = NoRets
    /\ cliResult' = "none"
    /\ UNCHANGED fsVars

Next ==
    \/ CLI_parse
    \/ CLI_construct
    \/ CLI_customHandler
    \/ prepareBuildHandler
    \/ buildHandler
    \/ cleanHandler
    \/ updateHandler
    \/ versionHandler
    \/ versionHandler_resume
    \/ handleProjectBuildHooks
    \/ handleProjectBuildHooks_return
    \/ hookPromiseSettles
    \/ runShellCommand_resume
    \/ CLI_finish
    \/ runAgain

Spec == Init /\ [][Next]_vars

\* ================================================================ claims
ConsoleIdx == 1..Len(console)
Count(kind) == Cardinality({k \in ConsoleIdx : console[k].kind = kind})
ErrorLogged == \E k \in ConsoleIdx : console[k].kind = "error"
Printed(entry) == \E k \in ConsoleIdx : console[k] = entry
IsFile(i) == i \in 1..Len(hookFs) /\ hookFs[i]
NameOf(i) == relative(ctx.projectHome, Cwd \o <<HookDirs[i], HookFile>>)

\* the entries a batch of step st has been through by now
Processed(st) ==
    IF step = st THEN 1..(hi - 1)
    ELSE IF st = PREPARE /\ step = FINALIZE THEN 1..Len(hookFs)
    ELSE {}

\* C1: once a custom handler has returned true, no later custom handler and
\* no built-in handler is invoked in that dispatch.
C1_FirstMatch ==
    claimedCustom # 0 =>
        /\ \A k \in invokedCustom : k <= claimedCustom
        /\ invokedBuiltin = {}

\* C2: outside dry-run every exception of a hook (load, synchronous throw,
\* rejected promise) is caught at that hook's boundary: none is left
\* unhandled, none ends the process, and once a batch has returned every
\* well-behaved hook of it has been invoked.
C2_FailureIsolation ==
    ~ctx.isDryRun =>
        /\ uncaught = {}
        /\ ~crashed
        /\ \A st \in BuildLifecycleStep : \A i \in Processed(st) :
              IsFile(i) /\ modules[i] \in {"sync", "async"} =>
                  \E k \in 1..Len(invocations) : invocations[k] = Task(i, st)

\* C3: build() is strictly sequential: while the generation command runs no
\* prepare hook is still at work, and no finalize hook is loaded before the
\* generation command has completed.
C3_BuildSequential ==
    /\ (op = "build" /\ pc = "shell") =>
          /\ \A t \in pending : t[2] # PREPARE
          /\ \A t \in imports : t[2] # FINALIZE
    /\ (op = "build" /\ \E t \in imports : t[2] = FINALIZE) =>
          /\ Len(shellCalls) = 1
          /\ pc # "shell"

\* C4: on a dry-run context nothing is deleted, every shell call carries
\* dryRun: true, no hook default function is called; every hook file the
\* batch has been through had its load attempted and reported, and a
\* completed clean() has reported every artifact that exists.
LoadReported(st, i) ==
    \E k \in ConsoleIdx :
        /\ console[k].kind = "hook"
        /\ console[k].step = st
        /\ console[k].name = NameOf(i)
        /\ console[k].what \in {"imported", "error"}

C4_DryRun ==
    ctx.isDryRun =>
        /\ deleted = <<>>
        /\ \A k \in 1..Len(shellCalls) : shellCalls[k].dryRun
        /\ invocations = <<>> /\ pending = {} /\ effects = {}
        /\ \A st \in BuildLifecycleStep : \A i \in Processed(st) :
              IsFile(i) => Task(i, st) \in imports /\ LoadReported(st, i)
        /\ (op = "clean" /\ handled) =>
              \A f \in Artifacts :
                  f \in artifacts <=> Printed(Log("clean", "", <<>>, f))

\* C4 witness: a dry-run build over two hook files has finished: both were
\* loaded in both steps and the one shell call was made.
C4_Witness ==
    /\ ctx.isDryRun /\ op = "build" /\ pc = "done" /\ handled
    /\ Cardinality(imports) = 4
    /\ Len(shellCalls) = 1

\* C5: CLI never raises: whatever threw (parser, context construction, a
\* custom or built-in handler), the message is printed, the dispatch is over
\* at once, nothing is printed after it, no handler can run any more and the
\* "Unable to handle" diagnostic is absent.
AnyHandler ==
    \/ CLI_customHandler
    \/ prepareBuildHandler \/ buildHandler \/ cleanHandler
    \/ updateHandler \/ versionHandler

C5_NeverRaises ==
    /\ cliResult # "raised"
    /\ pc = "done" => cliResult = "returned"
    /\ ErrorLogged =>
          /\ pc = "done"
          /\ Count("error") = 1
          /\ console[Len(console)].kind = "error"
          /\ Count("unable") = 0
          /\ ~ENABLED AnyHandler

\* C5 witness: the generation command threw inside the build handler after
\* a custom handler had declined, and CLI returned.
C5_Witness ==
    /\ Printed(Log("error", "", <<>>, "runShellCommand"))
    /\ op = "build" /\ invokedCustom # {}
    /\ pc = "done" /\ cliResult = "returned"

\* C6: after a successful parse and construction, when no custom and no
\* built-in handler claimed and nothing threw, CLI has printed the "Unable to
\* handle" diagnostic and the parsed options exactly once, in that order and
\* nothing else, has entered no lifecycle operation, and has returned.
NobodyClaimed ==
    /\ ctx.built /\ pc = "done" /\ ~ErrorLogged
    /\ claimedCustom = 0 /\ op = "none"

C6_Unhandled ==
    /\ Count("unable") <= 1
    /\ NobodyClaimed =>
          /\ console = <<Log("unable", "", <<>>,
                             "Unable to handle validly parsed docoptSpec:"),
                         Log("dir", "", <<>>, "cliOptions")>>
          /\ invokedBuiltin = CommandKeys
          /\ calls = <<>> /\ shellCalls = <<>> /\ deleted = <<>>
          /\ imports = {} /\ invocations = <<>>
          /\ cliResult = "returned"

\* C6 witness: two custom handlers and the five built-in ones all declined.
C6_Witness ==
    /\ NobodyClaimed
    /\ invokedCustom = {1, 2}
    /\ Count("unable") = 1

\* C7: when no custom handler claimed, the built-in handlers are tried in
\* the order prepare-build, build, clean, update, version: a handler is only
\* invoked after all earlier ones declined with their key unset, the one
\* that acts is the one of the earliest set key, nothing after it is
\* invoked, and only its lifecycle operation is entered.
BuiltinOrder == <<"prepare-build", "build", "clean", "update", "version">>
EarliestKey ==
    IF cliOptions.cmds = {} THEN 0
    ELSE CHOOSE i \in 1..5 :
            /\ BuiltinOrder[i] \in cliOptions.cmds
            /\ \A j \in 1..(i - 1) : BuiltinOrder[j] \notin cliOptions.cmds
MethodsOf(key) ==
    CASE key = "prepare-build" -> {"prepareBuild"}
      [] key = "build" -> {"build", "prepareBuild", "finalizeBuild"}
      [] key = "clean" -> {"clean"}
      [] key = "update" -> {"update", "getPrepareBuildSubmoduleRelNames"}
      [] OTHER -> {}

C7_BuiltinOrder ==
    claimedCustom = 0 =>
        /\ \A i \in 1..5 : BuiltinOrder[i] \in invokedBuiltin =>
              \A j \in 1..(i - 1) :
                  /\ BuiltinOrder[j] \in invokedBuiltin
                  /\ BuiltinOrder[j] \notin cliOptions.cmds
        /\ op # "none" =>
              /\ EarliestKey # 0
              /\ op = BuiltinOrder[EarliestKey]
              /\ invokedBuiltin = {BuiltinOrder[j] : j \in 1..EarliestKey}
        /\ \A k \in 1..Len(calls) : calls[k] \in MethodsOf(op)
        /\ (pc \in {"finish", "done"} /\ ~ErrorLogged /\ EarliestKey # 0) =>
              /\ op = BuiltinOrder[EarliestKey]
              /\ handled
              /\ op # "version" => calls # <<>>

\* C7 witness: with clean and update both set, clean() ran and the update
\* handler was never invoked.
C7_Witness ==
    /\ claimedCustom = 0
    /\ cliOptions.cmds = {"clean", "update"}
    /\ pc = "done" /\ handled
    /\ calls = <<"clean">>
    /\ invokedBuiltin = {"prepare-build", "build", "clean"}

\* C8: the list handleProjectBuildHooks builds, and prepareBuild returns,
\* holds the relative name of every hook file the batch has been through,
\* once each and in discovery order, whatever happened to the hook.
RECURSIVE NamesUpTo(_)
NamesUpTo(n) ==
    IF n = 0 THEN <<>>
    ELSE NamesUpTo(n - 1) \o (IF hookFs[n] THEN <<NameOf(n)>> ELSE <<>>)

C8_ReturnsAllNames ==
    /\ step # "none" => result = NamesUpTo(hi - 1)
    /\ rets["prepareBuild"].called =>
          /\ rets["prepareBuild"].defined
          /\ rets["prepareBuild"].list = NamesUpTo(Len(hookFs))

\* C8 witness: prepareBuild returned two names although one module failed to
\* load and the other one's default function threw.
C8_Witness ==
    /\ rets["prepareBuild"].called
    /\ Len(rets["prepareBuild"].list) = 2
    /\ \E i, j \in 1..Len(hookFs) :
          modules[i] = "loadfail" /\ modules[j] = "throws"
    /\ Cardinality(caught) >= 2

\* C9 (as stated): when the glob matches no file, prepareBuild and
\* finalizeBuild each return an empty list and nothing is loaded or invoked.
NoHookFiles == \A i \in 1..Len(hookFs) : ~hookFs[i]

C9_ZeroMatchesBothReturnEmpty ==
    NoHookFiles =>
        /\ rets["prepareBuild"].called =>
              rets["prepareBuild"].defined /\ rets["prepareBuild"].list = <<>>
        /\ rets["finalizeBuild"].called =>
              rets["finalizeBuild"].defined /\ rets["finalizeBuild"].list = <<>>
        /\ imports = {} /\ invocations = <<>>

\* C9 (amended): when the glob matches no file, the executor's list is empty
\* in both steps, prepareBuild returns that empty list, finalizeBuild returns
\* nothing (undefined), and nothing is loaded or invoked.
C9_ZeroMatches ==
    NoHookFiles =>
        /\ step # "none" => result = <<>>
        /\ rets["prepareBuild"].called =>
              rets["prepareBuild"].defined /\ rets["prepareBuild"].list = <<>>
        /\ rets["finalizeBuild"].called => ~rets["finalizeBuild"].defined
        /\ imports = {} /\ invocations = <<>>

\* C9 witness: a build over a glob that matches only a directory went through
\* both steps.
C9_Witness ==
    /\ NoHookFiles /\ Len(hookFs) = 1
    /\ rets["prepareBuild"].called /\ rets["finalizeBuild"].called
    /\ pc = "done"

\* C10: a completed clean() outside dry-run leaves go.sum, public and
\* resources absent whatever was there; the removal never raises, an absent
\* target being skipped; and a clean() run right after a completed one
\* removes nothing and leaves the filesystem as it found it.
C10_CleanIdempotent ==
    /\ (op = "clean" /\ handled /\ ~ctx.isDryRun) => artifacts = {}
    /\ ~Printed(Log("error", "", <<>>, "removeSync"))
    /\ run >= 2 => artifacts = {} /\ deleted = <<>>
    /\ (run >= 2 /\ op = "clean" /\ pc = "done" /\ ~handled) =>
          Printed(Log("error", "", <<>>, "runShellCommand"))

\* C10 witness: the second of two consecutive clean() runs has completed.
C10_Witness ==
    /\ run = 2 /\ op = "clean" /\ ~ctx.isDryRun
    /\ handled /\ pc = "done"

\* C11: on every constructed context isDryRun implies isVerbose (dry-run
\* without --verbose still gives a verbose context); the two flags, the
\* project home and the hook glob are what the options given at construction
\* determine, and no step of any lifecycle operation changes the context.
C11_ContextFixed ==
    /\ [](ctx.built =>
            /\ ctx.isDryRun => ctx.isVerbose
            /\ ctx.isDryRun = cliOptions.dryRun
            /\ ctx.isVerbose = (cliOptions.dryRun \/ cliOptions.verbose)
            /\ ctx.projectHome \in {cliOptions.project, chsOptions.projectHome, Cwd}
            /\ cliOptions.project # NoPath => ctx.projectHome = cliOptions.project
            /\ ctx.projectHome # NoPath
            /\ ctx.buildLifecyleHandlerGlob = DefaultGlob)
    /\ [][ctx.built /\ run' = run => ctx' = ctx /\ cliOptions' = cliOptions]_vars

\* C11 witness: a context built with --dry-run and without --verbose is
\* verbose, and a build has gone through both hook batches and the shell
\* call on it.
C11_Witness ==
    /\ ctx.built /\ cliOptions.dryRun /\ ~cliOptions.verbose
    /\ ctx.isDryRun /\ ctx.isVerbose
    /\ op = "build" /\ pc = "done" /\ handled
    /\ Cardinality(imports) >= 2

\* C12: when version is the only command key set and no custom handler
\* claimed, no lifecycle operation is entered, no hook is loaded or invoked,
\* no shell command is issued and nothing is deleted; the version lines come
\* tool first, library second; and once the version handler has returned,
\* exactly those two lines have been printed, the command counts as handled
\* (no "Unable to handle" diagnostic) and it was the version handler, last
\* of the built-in list, that handled it.
VersionOnly ==
    /\ ctx.built /\ cliOptions.cmds = {"version"} /\ claimedCustom = 0
VersionLines ==
    <<Log("version", "", <<>>, "pubctl"), Log("version", "", <<>>, "hugo-aide")>>

C12_VersionOnly ==
    VersionOnly =>
        /\ calls = <<>> /\ shellCalls = <<>> /\ deleted = <<>>
        /\ imports = {} /\ invocations = <<>>
        /\ op \in {"none", "version"}
        /\ Len(console) >= 1 /\ console[1].kind # "error" =>
              console[1] = VersionLines[1]
        /\ Len(console) >= 2 /\ console[2].kind # "error" =>
              console[2] = VersionLines[2]
        /\ (pc \in {"finish", "done"} /\ ~ErrorLogged) =>
              /\ console = VersionLines
              /\ handled /\ op = "version"
              /\ invokedBuiltin = CommandKeys

\* C12 witness: `pubctl version` has run to its end and printed two lines.
C12_Witness ==
    /\ VersionOnly /\ pc = "done" /\ handled
    /\ Len(console) = 2 /\ Count("version") = 2

\* C13: within one batch hook invocations do not interleave: when the
\* executor goes on to the next glob entry, or returns, no hook it invoked in
\* this batch is still at work, so never are two invocations in progress
\* together, and "executed" is only reported for a hook whose work is done.
C13_NoInterleaving ==
    /\ pc = "hooks" => \A t \in pending : t[2] # step
    /\ Cardinality(pending) <= 1
    /\ \A st \in BuildLifecycleStep : \A i \in 1..Len(hookFs) :
          Printed(Log("hook", st, NameOf(i), "executed")) =>
              Task(i, st) \in effects

\* C14: in build(), when the generation command throws, the exception leaves
\* build() and the build handler and is printed by CLI's catch: the handler
\* claims nothing, finalizeBuild is not entered and no finalize hook is
\* loaded or invoked.  Finalize hooks are run if and only if the shell call
\* returned: finalizeBuild is entered in the same step in which it returns.
ShellFailed == Printed(Log("error", "", <<>>, "runShellCommand"))
FinalizeStarted ==
    \/ \E k \in 1..Len(calls) : calls[k] = "finalizeBuild"
    \/ step = FINALIZE
    \/ \E t \in imports : t[2] = FINALIZE
    \/ \E k \in 1..Len(invocations) : invocations[k][2] = FINALIZE
    \/ rets["finalizeBuild"].called

C14_ShellFailureStopsBuild ==
    op = "build" =>
        /\ ShellFailed =>
              /\ ~FinalizeStarted
              /\ pc = "done" /\ cliResult = "returned"
              /\ ~handled
              /\ Len(shellCalls) = 1
        /\ FinalizeStarted =>
              /\ Len(shellCalls) = 1 /\ shellCalls[1].cmd = "hugox"
              /\ pc # "shell"
              /\ calls = <<"build", "prepareBuild", "finalizeBuild">>
        /\ (Len(shellCalls) = 1 /\ pc # "shell" /\ ~ShellFailed) =>
              /\ calls = <<"build", "prepareBuild", "finalizeBuild">>
              /\ step = FINALIZE

\* C14 witness: the generation command of a build over a hook file failed
\* after the prepare hook had been invoked.
C14_Witness ==
    /\ op = "build" /\ ShellFailed /\ pc = "done"
    /\ invocations = <<Task(1, PREPARE)>>

\* C15: outside dry-run, in a build() that completes the generation command
\* was started exactly once and every hook file whose module has a default
\* function was invoked exactly twice: once with the prepare step, before
\* the command was started, and once with the finalize step, after it; a
\* hook without a default function was not invoked.  A completed
\* prepareBuild() on its own has invoked each such hook exactly once, with
\* the prepare step, and started no command.
Callable(i) == IsFile(i) /\ modules[i] \in {"sync", "throws", "async"}
Invoked(i, st) == {k \in 1..Len(invocations) : invocations[k] = Task(i, st)}
OncePerCallable(st) ==
    \A i \in 1..Len(hookFs) :
        Cardinality(Invoked(i, st)) = (IF Callable(i) THEN 1 ELSE 0)
NoneInvoked(st) == \A k \in 1..Len(invocations) : invocations[k][2] # st

C15_HookInvocationCounts ==
    ~ctx.isDryRun =>
        /\ (op = "build" /\ shellCalls = <<>>) => NoneInvoked(FINALIZE)
        /\ (op = "build" /\ pc = "shell") =>
              /\ Len(shellCalls) = 1
              /\ OncePerCallable(PREPARE) /\ NoneInvoked(FINALIZE)
        /\ (op = "build" /\ handled) =>
              /\ Len(shellCalls) = 1
              /\ shellCalls[1] = [cmd |-> "hugox", names |-> <<>>,
                                  verbose |-> ctx.isVerbose, dryRun |-> FALSE]
              /\ OncePerCallable(PREPARE) /\ OncePerCallable(FINALIZE)
              /\ \A i, j \in 1..Len(hookFs) :
                    \A k \in Invoked(i, PREPARE) : \A l \in Invoked(j, FINALIZE) :
                        k < l
        /\ (op = "prepare-build" /\ handled) =>
              /\ OncePerCallable(PREPARE) /\ NoneInvoked(FINALIZE)
              /\ shellCalls = <<>>

\* C15 witness: a build over two hook files, one whose default function
\* throws, has completed with four invocations.
C15_Witness ==
    /\ ~ctx.isDryRun /\ op = "build" /\ handled /\ pc = "done"
    /\ Len(hookFs) = 2 /\ Callable(1) /\ Callable(2)
    /\ \E i \in 1..2 : modules[i] = "throws"
    /\ Len(invocations) = 4

\* C16: outside dry-run a hook module that loads but has no default function
\* is reported with "does not have a default function", is not invoked,
\* raises nothing (nothing is caught for it, no error is printed for it),
\* has its name in the list the batch builds and returns, and does not stop
\* the batch: the executor can always go on to the next entry or return.
NoDefault(i) == IsFile(i) /\ modules[i] = "nodefault"
HookReport(i, st, what) == Printed(Log("hook", st, NameOf(i), what))
InSeq(x, seq) == \E k \in 1..Len(seq) : seq[k] = x

C16_NoDefaultFunction ==
    ~ctx.isDryRun =>
        \A i \in 1..Len(hookFs) : NoDefault(i) =>
            /\ \A st \in BuildLifecycleStep : i \in Processed(st) =>
                  /\ HookReport(i, st, "does not have a default function")
                  /\ ~HookReport(i, st, "executed")
                  /\ ~HookReport(i, st, "error")
                  /\ Invoked(i, st) = {}
                  /\ Task(i, st) \notin (caught \cup uncaught \cup pending \cup effects)
                  /\ st = step => InSeq(NameOf(i), result)
                  /\ (st = PREPARE /\ rets["prepareBuild"].called) =>
                        InSeq(NameOf(i), rets["prepareBuild"].list)
            /\ (pc = "hooks" /\ Alive) =>
                  ENABLED (handleProjectBuildHooks \/ handleProjectBuildHooks_return)
            /\ ErrorLogged => ShellFailed

\* C16 witness: prepareBuild has returned both names of a batch whose first
\* module has no default function and whose second one was invoked.
C16_Witness ==
    /\ ~ctx.isDryRun /\ op = "prepare-build" /\ handled
    /\ Len(hookFs) = 2 /\ NoDefault(1) /\ Callable(2)
    /\ invocations = <<Task(2, PREPARE)>>
    /\ Len(rets["prepareBuild"].list) = 2

\* C17: the "Unable to handle" diagnostic is printed only when no handler at
\* all, custom or built-in, returned true; in particular not when a custom
\* handler claimed the command and no built-in command key is set.
C17_DiagnosticOnlyIfNobodyClaimed ==
    Count("unable") >= 1 => claimedCustom = 0 /\ ~handled

\* C18: hook discovery is rooted at the context's project home, also when
\* that is not the working directory: every entry handleProjectBuildHooks
\* loads, and every entry whose name getPrepareBuildSubmoduleRelNames hands
\* to update(), is a regular file below the project home (so its relative
\* name never climbs out of it), directories being left out.
Below(root, path) ==
    Len(path) > Len(root) /\ SubSeq(path, 1, Len(root)) = root
Discovered ==
    {t[1] : t \in imports}
        \cup (IF op = "update" THEN {i \in 1..Len(hookFs) : hookFs[i]} ELSE {})

C18_DiscoveryRootedAtProjectHome ==
    ctx.built =>
        /\ \A i \in Discovered :
              /\ expandGlobSync(hookFs)[i].isFile
              /\ Below(ctx.projectHome, expandGlobSync(hookFs)[i].path)
        /\ \A k \in 1..Len(result) : result[k][1] # ".."
        /\ \A c \in 1..Len(shellCalls) : \A k \in 1..Len(shellCalls[c].names) :
              shellCalls[c].names[k][1] # ".."

\* C19: in clean() no artifact is removed or reported while the module-clean
\* shell command is still running; when that command throws, clean() ends
\* with the exception (printed by CLI's catch, nothing claimed) and none of
\* the three paths is deleted or reported; removals and their reports come
\* in the order go.sum, public, resources.
RemovalRank(f) ==
    CASE f = "go.sum" -> 1 [] f = "public" -> 2 [] f = "resources" -> 3 [] OTHER -> 0
IsCleanReport(e) == e.kind \in {"clean", "deleted"}
CleanReports == SelectSeq(console, IsCleanReport)
DeletedRanks == [k \in 1..Len(deleted) |-> RemovalRank(deleted[k])]
ReportRanks  == [k \in 1..Len(CleanReports) |-> RemovalRank(CleanReports[k].what)]
Increasing(seq) ==
    \A k, l \in 1..Len(seq) : k < l => 0 < seq[k] /\ seq[k] < seq[l]

C19_CleanAfterShell ==
    /\ op # "clean" => deleted = <<>> /\ CleanReports = <<>>
    /\ op = "clean" =>
          /\ Len(shellCalls) = 1
          /\ shellCalls[1].cmd = "hugox mod clean --all"
          /\ pc = "shell" => deleted = <<>> /\ CleanReports = <<>>
          /\ ShellFailed =>
                /\ deleted = <<>> /\ CleanReports = <<>>
                /\ ~handled /\ pc = "done"
          /\ Increasing(DeletedRanks)
          /\ Increasing(ReportRanks)
          /\ \A k \in 1..Len(deleted) : DeletedRanks[k] > 0

\* C19 witness: a verbose clean() has removed and reported all three paths.
C19_Witness ==
    /\ op = "clean" /\ handled /\ ~ctx.isDryRun /\ ctx.isVerbose
    /\ deleted = <<"go.sum", "public", "resources">>
    /\ Len(CleanReports) = 3

\* C20: update() issues exactly one shell command, also when that command
\* fails (no retry): `udd pubctl.ts` followed by the relative names of all
\* hook files in discovery order, the names prepareBuild would return; it
\* loads no hook module, invokes no default function and deletes nothing.
C20_UpdateOneCommand ==
    op = "update" =>
        /\ calls = <<"update", "getPrepareBuildSubmoduleRelNames">>
        /\ Len(shellCalls) = 1
        /\ shellCalls[1].cmd = "udd pubctl.ts"
        /\ shellCalls[1].names = NamesUpTo(Len(hookFs))
        /\ shellCalls[1].dryRun = ctx.isDryRun
        /\ imports = {} /\ invocations = <<>> /\ pending = {}
        /\ \A i \in 1..Len(hookFs) : modules[i] = "unloaded"
        /\ deleted = <<>> /\ CleanReports = <<>>
        /\ rets = NoRets
        /\ ShellFailed => pc = "done" /\ ~handled

\* C20 witness: update() has completed over a glob that matches a directory
\* and a file, and passed the one file's name.
C20_Witness ==
    /\ op = "update" /\ handled /\ pc = "done"
    /\ hookFs = <<FALSE, TRUE>>
    /\ shellCalls[1].names = <<<<"h2", HookFile>>>>

====
